---- MODULE Spec2Model ----
(***************************************************************************)
(* AX.25 framing engine of STACet/ax25.py: HDLC bit stuffing, the          *)
(* bit-serial frame check sequence, the callsign codec and the frame       *)
(* encoder / decoder.  Bits are the integers 0 and 1; a bit sequence is a  *)
(* TLA+ sequence in transmission order (little-bit-endian within a byte).  *)
(***************************************************************************)
EXTENDS Integers, Sequences, FiniteSets, TLC

\* Longest input handed to bit_stuff.
MaxBits == 11

Bit == {0, 1}

BitSeqs(n) == UNION {[1..k -> Bit] : k \in 0..n}

\* TRUE iff s holds n consecutive 1-bits somewhere.
HasRun(s, n) ==
    \E k \in 1..(Len(s) - n + 1) : \A j \in k..(k + n - 1) : s[j] = 1

VARIABLES
    pc,        \* position of the computation under study
    data,      \* bit_stuff: the input iterable
    pos,       \* index of the next bit the running loop reads
    count,     \* bit_stuff / bit_unstuff: local count
    pending,   \* bit_stuff: suspended at "yield bit" with count == 5
    stuffed,   \* bits yielded by bit_stuff so far
    skip,      \* bit_unstuff: local skip
    ret_bits,  \* bit_unstuff: local ret_bits
    D,         \* the byte sequence whose bits are check-summed
    fcs,       \* FCS.fcs of the FCS object in use
    appended,  \* bits yielded by the generator fcs(bits), later the input
               \* of fcs_validate
    flip,      \* index of the bit inverted in appended, 0 for none
    buffer,    \* fcs_validate: local buffer
    yielded,   \* bits yielded by fcs_validate so far
    raised,    \* exception that ended fcs_validate, "" while there is none
    ui,        \* the UI frame built for transmission, NoFrame before that
    bits,      \* the bit sequence handed to AX25.parse
    origin,    \* where bits came from: "unparse", "corrupted", "received"
    destination,  \* self.destination of the AX25 object that parses
    source,       \* self.source
    digipeaters,  \* self.digipeaters
    info,         \* self.info
    digis,        \* self.digis, Absent until parse sets it
    callsign,     \* argument of AX25.callsign_encode
    encoded,      \* what callsign_encode ended with: exception and bytes
    decoded,      \* what AX25.callsign_decode returned, Absent before
    addresses,    \* what AX25.encoded_addresses returned
    trailer       \* what AX25.fcs returned

stuffVars == <<data, pos, count, pending, stuffed, skip, ret_bits>>

fcsVars == <<D, fcs, appended, flip, buffer, yielded, raised>>

parseVars ==
    <<ui, bits, origin, destination, source, digipeaters, info, digis>>

codecVars == <<callsign, encoded, decoded, addresses, trailer>>

vars == <<pc, stuffVars, fcsVars, parseVars, codecVars>>

----------------------------------------------------------------------------
(* bitarray conversions *)

\* The 8 bits of a byte, least significant first.
ByteBitsLittle(b) == [k \in 1..8 |-> (b \div (2 ^ (k - 1))) % 2]

\* bitarray(endian="little").frombytes(bytes)
FromBytesLittle(bytes) ==
    [k \in 1..(8 * Len(bytes)) |->
        ByteBitsLittle(bytes[((k - 1) \div 8) + 1])[((k - 1) % 8) + 1]]

\* s padded with 0-bits to a whole number of bytes
PadToByte(s) == s \o [k \in 1..((8 - (Len(s) % 8)) % 8) |-> 0]

\* Value of the byte whose bits are s[from] .. s[from + 7], first bit
\* least significant.
ByteLittleAt(s, from) ==
    s[from] + 2 * s[from + 1] + 4 * s[from + 2] + 8 * s[from + 3]
    + 16 * s[from + 4] + 32 * s[from + 5] + 64 * s[from + 6]
    + 128 * s[from + 7]

\* Value of the byte whose bits are s[from] .. s[from + 7], first bit
\* most significant.
ByteBigAt(s, from) ==
    128 * s[from] + 64 * s[from + 1] + 32 * s[from + 2] + 16 * s[from + 3]
    + 8 * s[from + 4] + 4 * s[from + 5] + 2 * s[from + 6] + s[from + 7]

\* tobytes() of a bitarray(endian="little")
ToBytesLittle(s) ==
    LET p == PadToByte(s) IN
      [k \in 1..(Len(p) \div 8) |-> ByteLittleAt(p, 8 * (k - 1) + 1)]

\* tobytes() of a bitarray() (the default endianness is big)
ToBytesBig(s) ==
    LET p == PadToByte(s) IN
      [k \in 1..(Len(p) \div 8) |-> ByteBigAt(p, 8 * (k - 1) + 1)]

----------------------------------------------------------------------------
(* class FCS *)

\* FCS.__init__: self.fcs = 0xffff
FcsSeed == 65535

\* 0x8408
FcsPoly == 33800

\* Bitwise exclusive or of two naturals.
RECURSIVE Xor(_, _)
Xor(a, b) ==
    IF a = 0 THEN b
    ELSE IF b = 0 THEN a
    ELSE ((a + b) % 2) + 2 * Xor(a \div 2, b \div 2)

\* update_bit shifting left ("self.fcs <<= 1")
update_bit_shift_left(state, bit) ==
    LET check   == (state % 2) = 1
        shifted == state * 2
    IN  IF check # (bit = 1) THEN Xor(shifted, FcsPoly) ELSE shifted

\* FCS.update_bit
update_bit(state, bit) ==
    LET check   == (state % 2) = 1
        shifted == state \div 2
    IN  IF check # (bit = 1) THEN Xor(shifted, FcsPoly) ELSE shifted

\* FCS.update iterates over its argument: a byte string can be iterated,
\* a single bit raises TypeError.
update_accepts(arg) == arg \notin Bit

\* FCS.update over the 8 bits of one byte, most significant first
RECURSIVE update_byte(_, _, _)
update_byte(state, byte, i) ==
    IF i < 0 THEN state
    ELSE update_byte(update_bit(state, (byte \div (2 ^ i)) % 2), byte, i - 1)

\* FCS.update over bytes[lo] .. bytes[hi], in order
RECURSIVE update_loop(_, _, _, _)
update_loop(state, bytes, lo, hi) ==
    IF lo > hi THEN state
    ELSE IF lo = hi THEN update_byte(state, bytes[lo], 7)
    ELSE LET mid == (lo + hi) \div 2 IN
           CHOOSE r \in {update_loop(l, bytes, mid + 1, hi) :
                            l \in {update_loop(state, bytes, lo, mid)}} : TRUE

\* FCS.update
update(state, bytes) == update_loop(state, bytes, 1, Len(bytes))

\* FCS.digest: struct.pack("<H", ~self.fcs % 2 ** 16)
digest(state) ==
    LET v == (-state - 1) % 65536 IN <<v % 256, v \div 256>>

----------------------------------------------------------------------------
(* bit_stuff / bit_unstuff *)

\* Run length that triggers the stuffing bit.
StuffRun == 5

\* count after one input bit has been looked at (if bit: count += 1 else 0)
RunCount(c, bit) == IF bit = 1 THEN c + 1 ELSE 0

bit_stuff_due_at6(c) == c = StuffRun + 1

bit_stuff_due_at4(c) == c = StuffRun - 1

\* bit_stuff: "if count == 5" after the yield of the data bit
bit_stuff_due(c) == c = StuffRun

bit_unstuff_due_never(c) == FALSE

\* bit_unstuff: "if count == 5" after the append
bit_unstuff_due(c) == c = StuffRun

\* bit_stuff, one loop iteration: count and the bits yielded so far
bit_stuff_step(st, bit) ==
    LET c == RunCount(st.count, bit) IN
      IF bit_stuff_due(c)
        THEN [count |-> 0, out |-> st.out \o <<bit, 0>>]
        ELSE [count |-> c, out |-> Append(st.out, bit)]

\* the loop of bit_stuff over bs[lo] .. bs[hi], in order
RECURSIVE bit_stuff_loop(_, _, _, _)
bit_stuff_loop(st, bs, lo, hi) ==
    IF lo > hi THEN st
    ELSE IF lo = hi THEN bit_stuff_step(st, bs[lo])
    ELSE LET mid == (lo + hi) \div 2 IN
           CHOOSE r \in {bit_stuff_loop(l, bs, mid + 1, hi) :
                            l \in {bit_stuff_loop(st, bs, lo, mid)}} : TRUE

\* everything the generator bit_stuff(data) yields
bit_stuff(bs) ==
    bit_stuff_loop([count |-> 0, out |-> <<>>], bs, 1, Len(bs)).out

\* bit_unstuff, one loop iteration: count, skip and ret_bits
bit_unstuff_step(st, bit) ==
    IF ~st.skip
      THEN LET c == RunCount(st.count, bit) IN
             [count    |-> IF bit_unstuff_due(c) THEN 0 ELSE c,
              skip     |-> bit_unstuff_due(c),
              ret_bits |-> Append(st.ret_bits, bit)]
      ELSE [st EXCEPT !.skip = FALSE]

\* the loop of bit_unstuff over bs[lo] .. bs[hi], in order
RECURSIVE bit_unstuff_loop(_, _, _, _)
bit_unstuff_loop(st, bs, lo, hi) ==
    IF lo > hi THEN st
    ELSE IF lo = hi THEN bit_unstuff_step(st, bs[lo])
    ELSE LET mid == (lo + hi) \div 2 IN
           CHOOSE r \in {bit_unstuff_loop(l, bs, mid + 1, hi) :
                            l \in {bit_unstuff_loop(st, bs, lo, mid)}} : TRUE

\* the bitarray bit_unstuff(data) returns
bit_unstuff(bs) ==
    bit_unstuff_loop([count |-> 0, skip |-> FALSE, ret_bits |-> <<>>],
                     bs, 1, Len(bs)).ret_bits

----------------------------------------------------------------------------
(* Python values: a str, a bytes object and a tuple are told apart *)

PyStr(v) == [t |-> "str", v |-> v]

PyBytes(v) == [t |-> "bytes", v |-> v]

PyTuple(v) == [t |-> "tuple", v |-> v]

\* An attribute that has not been assigned.
Absent == [t |-> "absent", v |-> <<>>]

\* a == b in Python 3: values of different types are never equal
PyEq(a, b) == a.t = b.t /\ a.v = b.v

\* s[lo:hi] on a sequence, indices 0-based, negative ones from the end
PyIndex(i, n) == IF i < 0 THEN (IF n + i < 0 THEN 0 ELSE n + i)
                 ELSE (IF i > n THEN n ELSE i)

PySlice(s, lo, hi) ==
    LET a == PyIndex(lo, Len(s))
        b == PyIndex(hi, Len(s))
    IN  IF a >= b THEN <<>> ELSE SubSeq(s, a + 1, b)

\* The elements of a finite set of integers in increasing order.
RECURSIVE Ascending(_)
Ascending(S) ==
    IF S = {} THEN <<>>
    ELSE LET m == CHOOSE x \in S : \A y \in S : x <= y IN
           <<m>> \o Ascending(S \ {m})

\* bitarray.search(pattern): the list of all start positions, 0-based
search(bs, pattern) ==
    Ascending({i \in 0..(Len(bs) - Len(pattern)) :
                   SubSeq(bs, i + 1, i + Len(pattern)) = pattern})

----------------------------------------------------------------------------
(* class AX25 / class UI: encoding *)

\* self.flag = b"\x7e"
FlagByte == 126

\* UI.__init__: self.control_field = b"\x03"
ControlField == 3

\* UI.__init__: self.protocol_id = b"\xf0"
ProtocolId == 240

\* ASCII codes
Dash == 45

Space == 32

Zero == 48

\* "no decode"
NoDecode == PyStr(<<110, 111, 32, 100, 101, 99, 111, 100, 101>>)

\* bytes.upper()
Upper(cs) == [k \in 1..Len(cs) |-> IF cs[k] \in 97..122 THEN cs[k] - 32
                                                          ELSE cs[k]]

\* bytes.find(b"-"): 0-based index of the first dash, -1 without one
FindDash(cs) ==
    IF \E k \in 1..Len(cs) : cs[k] = Dash
      THEN (CHOOSE k \in 1..Len(cs) :
              cs[k] = Dash /\ \A j \in 1..(k - 1) : cs[j] # Dash) - 1
      ELSE -1

DashCount(cs) == Cardinality({k \in 1..Len(cs) : cs[k] = Dash})

\* AX25.callsign_encode: the exception it ends with ("" for none) and the
\* bytes it returns
callsign_encode(arg) ==
    LET up      == Upper(arg)
        dashed  == FindDash(up) > 0
        unpack  == dashed /\ DashCount(up) # 1
        base    == IF dashed THEN SubSeq(up, 1, FindDash(up)) ELSE up
        ssid    == IF dashed THEN SubSeq(up, FindDash(up) + 2, Len(up))
                             ELSE <<Zero>>
        padded  == base \o [k \in 1..(6 - Len(base)) |-> Space]
        joined  == padded \o ssid
    IN  IF unpack
          THEN [raised |-> "ValueError", bytes |-> <<>>]
        ELSE IF Len(ssid) # 1 \/ Len(base) > 6
          THEN [raised |-> "AssertionError", bytes |-> <<>>]
        ELSE IF \E k \in 1..Len(joined) : joined[k] * 2 > 255
          THEN [raised |-> "ValueError", bytes |-> <<>>]
        ELSE [raised |-> "",
              bytes |-> [k \in 1..Len(joined) |-> joined[k] * 2]]

\* b"".join of the encodings of a tuple of callsigns
RECURSIVE JoinEncoded(_)
JoinEncoded(calls) ==
    IF calls = <<>> THEN <<>>
    ELSE callsign_encode(Head(calls)).bytes \o JoinEncoded(Tail(calls))

\* encoded_addresses without "address_bytes[-1] |= 0x01"
encoded_addresses_unmarked(self) ==
    callsign_encode(self.destination).bytes
    \o callsign_encode(self.source).bytes
    \o JoinEncoded(self.digipeaters)

\* AX25.encoded_addresses
encoded_addresses(self) ==
    LET address_bytes == callsign_encode(self.destination).bytes
                         \o callsign_encode(self.source).bytes
                         \o JoinEncoded(self.digipeaters)
        last == Len(address_bytes)
    IN  [address_bytes EXCEPT
           ![last] = IF @ % 2 = 0 THEN @ + 1 ELSE @]

\* AX25.header
header(self) == encoded_addresses(self) \o <<ControlField>> \o <<ProtocolId>>

\* FCS.update_bit applied to bs[lo] .. bs[hi], in order
RECURSIVE update_bits(_, _, _, _)
update_bits(state, bs, lo, hi) ==
    IF lo > hi THEN state
    ELSE IF lo = hi THEN update_bit(state, bs[lo])
    ELSE LET mid == (lo + hi) \div 2 IN
           CHOOSE r \in {update_bits(l, bs, mid + 1, hi) :
                            l \in {update_bits(state, bs, lo, mid)}} : TRUE

\* AX25.fcs over the header alone
frame_fcs_header_only(self) ==
    LET content == FromBytesLittle(header(self)) IN
      digest(update_bits(FcsSeed, content, 1, Len(content)))

\* AX25.fcs with the two commented-out calls of fcs.update in place of
\* the loop over the bits
frame_fcs_by_update(self) ==
    digest(update(update(FcsSeed, header(self)), self.info))

\* AX25.fcs
frame_fcs(self) ==
    LET content == FromBytesLittle(header(self) \o self.info) IN
      digest(update_bits(FcsSeed, content, 1, Len(content)))

\* AX25.unparse
unparse(self) ==
    LET flag == FromBytesLittle(<<FlagByte>>)
        body == FromBytesLittle(header(self) \o self.info \o frame_fcs(self))
    IN  flag \o bit_stuff(body) \o flag

----------------------------------------------------------------------------
(* class AX25: decoding *)

\* callsign_decode reading the bytes most significant bit first
callsign_decode_big(callbits) ==
    LET callstring == ToBytesBig(callbits) IN
      PyStr([k \in 1..Len(callstring) |-> callstring[k] \div 2])

\* AX25.callsign_decode
callsign_decode(callbits) ==
    LET callstring == ToBytesLittle(callbits) IN
      PyStr([k \in 1..Len(callstring) |-> callstring[k] \div 2])

\* parse: "bits_bytes[n:n + 2] == "\x03\xF0"", a bytes slice against a str
marker_at(bits_bytes, n) ==
    PyEq(PyBytes(PySlice(bits_bytes, n, n + 2)),
         PyStr(<<ControlField, ProtocolId>>))

\* parse: the value of n after "for n in range(14, len(bits_bytes) - 1)"
\* that started at n, with its break
RECURSIVE marker_scan_from(_, _)
marker_scan_from(bits_bytes, n) ==
    IF marker_at(bits_bytes, n) THEN n
    ELSE IF n + 1 >= Len(bits_bytes) - 1 THEN n
    ELSE marker_scan_from(bits_bytes, n + 1)

\* parse: the marker loop; n stays unbound when the range is empty
marker_scan(bits_bytes) ==
    IF 14 >= Len(bits_bytes) - 1
      THEN [bound |-> FALSE, n |-> 0]
      ELSE [bound |-> TRUE, n |-> marker_scan_from(bits_bytes, 14)]

\* The except branch without its assignment to self.digis.
no_decode_fields_without_digis ==
    [destination |-> NoDecode, source |-> NoDecode,
     info |-> NoDecode, digis |-> Absent]

\* parse: the four assignments of the except branch, the same as those of
\* the "n == len(bits_bytes) - 1" branch
no_decode_fields ==
    [destination |-> NoDecode, source |-> NoDecode,
     info |-> NoDecode, digis |-> NoDecode]

\* parse: the statements after the marker loop, n bound
parse_split(bits_unstuff, bits_bytes, n) ==
    LET h_dest   == PySlice(bits_unstuff, 0, 56)
        h_src    == PySlice(bits_unstuff, 56, 112)
        digibits == (n - 14) * 8
        h_len    == 112 + (n - 14) * 8 + 16
        pinfo    == PySlice(bits_unstuff, h_len, -16)
    IN  IF n = Len(bits_bytes) - 1
          THEN no_decode_fields
        ELSE IF digibits # 0
          \* digilen != 0: "digipeters" is assigned, and the print of
          \* digipeaters raises UnboundLocalError
          THEN no_decode_fields
        ELSE [destination |-> callsign_decode(h_dest),
              source      |-> callsign_decode(h_src),
              info        |-> PyBytes(ToBytesLittle(pinfo)),
              digis       |-> PyTuple(<<>>)]

\* AX25.parse: the values it leaves in destination, source, info, digis
parse(bs) ==
    LET flag     == FromBytesLittle(<<FlagByte>>)
        flag_loc == search(bs, flag)
    IN  IF Len(flag_loc) < 2
          THEN no_decode_fields        \* IndexError on flag_loc[0] or [1]
          ELSE LET bits_noflag  == PySlice(bs, flag_loc[1] + 8, flag_loc[2])
                   bits_unstuff == bit_unstuff(bits_noflag)
                   bits_bytes   == ToBytesLittle(bits_unstuff)
                   scan         == marker_scan(bits_bytes)
               IN  IF ~scan.bound
                     THEN no_decode_fields      \* UnboundLocalError on n
                     ELSE parse_split(bits_unstuff, bits_bytes, scan.n)

----------------------------------------------------------------------------
(* Values of the variables a specification does not use *)

NoFrame == [destination |-> <<>>, source |-> <<>>,
            digipeaters |-> <<>>, info |-> <<>>]

StuffIdle ==
    /\ count = 0
    /\ pending = FALSE
    /\ stuffed = <<>>
    /\ skip = FALSE
    /\ ret_bits = <<>>

FcsIdle ==
    /\ D = <<>>
    /\ fcs = FcsSeed
    /\ appended = <<>>
    /\ flip = 0
    /\ buffer = <<>>
    /\ yielded = <<>>
    /\ raised = ""

ParseIdle ==
    /\ ui = NoFrame
    /\ bits = <<>>
    /\ origin = ""
    /\ destination = Absent
    /\ source = Absent
    /\ digipeaters = Absent
    /\ info = Absent
    /\ digis = Absent

CodecIdle ==
    /\ callsign = <<>>
    /\ encoded = [raised |-> "", bytes |-> <<>>]
    /\ decoded = Absent
    /\ addresses = <<>>
    /\ trailer = <<>>

StuffInit ==
    /\ pc = "stuff"
    /\ data \in BitSeqs(MaxBits)
    /\ pos = 1
    /\ count = 0
    /\ pending = FALSE
    /\ stuffed = <<>>
    /\ skip = FALSE
    /\ ret_bits = <<>>
    /\ FcsIdle
    /\ ParseIdle
    /\ CodecIdle

\* bit_stuff, one loop iteration up to "yield bit"
StuffYieldBit ==
    /\ pc = "stuff"
    /\ ~pending
    /\ pos <= Len(data)
    /\ LET c == RunCount(count, data[pos]) IN
         /\ count' = c
         /\ pending' = bit_stuff_due(c)
    /\ stuffed' = Append(stuffed, data[pos])
    /\ pos' = pos + 1
    /\ UNCHANGED <<pc, data, skip, ret_bits, fcsVars, parseVars>>
    /\ UNCHANGED codecVars

\* bit_stuff, resumed with count == 5: "yield False; count = 0"
StuffYieldFalse ==
    /\ pc = "stuff"
    /\ pending
    /\ stuffed' = Append(stuffed, 0)
    /\ count' = 0
    /\ pending' = FALSE
    /\ UNCHANGED <<pc, data, pos, skip, ret_bits, fcsVars, parseVars>>
    /\ UNCHANGED codecVars

\* bit_stuff is exhausted; bit_unstuff is called on what it produced
StuffReturn ==
    /\ pc = "stuff"
    /\ ~pending
    /\ pos > Len(data)
    /\ pc' = "unstuff"
    /\ pos' = 1
    /\ count' = 0
    /\ skip' = FALSE
    /\ ret_bits' = <<>>
    /\ UNCHANGED <<data, pending, stuffed, fcsVars, parseVars>>
    /\ UNCHANGED codecVars

\* bit_unstuff, one loop iteration
UnstuffBit ==
    /\ pc = "unstuff"
    /\ pos <= Len(stuffed)
    /\ IF ~skip
         THEN LET c == RunCount(count, stuffed[pos]) IN
                /\ ret_bits' = Append(ret_bits, stuffed[pos])
                /\ skip' = bit_unstuff_due(c)
                /\ count' = IF bit_unstuff_due(c) THEN 0 ELSE c
         ELSE /\ skip' = FALSE
              /\ UNCHANGED <<count, ret_bits>>
    /\ pos' = pos + 1
    /\ UNCHANGED <<pc, data, pending, stuffed, fcsVars, parseVars>>
    /\ UNCHANGED codecVars

\* bit_unstuff: "return ret_bits"
UnstuffReturn ==
    /\ pc = "unstuff"
    /\ pos > Len(stuffed)
    /\ pc' = "unstuffed"
    /\ UNCHANGED <<stuffVars, fcsVars, parseVars>>
    /\ UNCHANGED codecVars

StuffNext ==
    \/ StuffYieldBit
    \/ StuffYieldFalse
    \/ StuffReturn
    \/ UnstuffBit
    \/ UnstuffReturn

SpecStuff == StuffInit /\ [][StuffNext]_vars

----------------------------------------------------------------------------
(* fcs / fcs_validate *)

\* Longest byte sequence that is check-summed.
MaxBytes == 2

\* Byte values the check-summed sequences are made of.
FcsBytes == {0, 1, 126, 255}

ByteSeqs(n) == UNION {[1..k -> FcsBytes] : k \in 0..n}

FcsInit ==
    /\ pc = "fcs"
    /\ D \in ByteSeqs(MaxBytes)
    /\ data = FromBytesLittle(D)
    /\ pos = 1
    /\ fcs = FcsSeed
    /\ appended = <<>>
    /\ flip = 0
    /\ buffer = <<>>
    /\ yielded = <<>>
    /\ raised = ""
    /\ StuffIdle
    /\ ParseIdle
    /\ CodecIdle

\* fcs(bits), one loop iteration: "yield bit; fcs.update_bit(bit)"
FcsYieldBit ==
    /\ pc = "fcs"
    /\ pos <= Len(data)
    /\ appended' = Append(appended, data[pos])
    /\ fcs' = update_bit(fcs, data[pos])
    /\ pos' = pos + 1
    /\ UNCHANGED <<pc, data, count, pending, stuffed, skip, ret_bits>>
    /\ UNCHANGED <<D, flip, buffer, yielded, raised, parseVars>>
    /\ UNCHANGED codecVars

\* fcs(bits), after the loop: the bits of the digest, little-bit-endian
FcsYieldDigest ==
    /\ pc = "fcs"
    /\ pos > Len(data)
    /\ appended' = appended \o FromBytesLittle(digest(fcs))
    /\ pc' = "appended"
    /\ UNCHANGED <<stuffVars, D, fcs, flip, buffer, yielded, raised, parseVars>>
    /\ UNCHANGED codecVars

\* One bit of the appended stream is inverted before it is validated.
FlipBit ==
    /\ pc = "appended"
    /\ flip = 0
    /\ \E i \in 1..Len(appended) :
         /\ appended' = [appended EXCEPT ![i] = 1 - @]
         /\ flip' = i
    /\ UNCHANGED <<pc, stuffVars, D, fcs, buffer, yielded, raised, parseVars>>
    /\ UNCHANGED codecVars

\* fcs_validate(bits) is called: "buffer = bitarray(); fcs = FCS()"
ValidateCall ==
    /\ pc = "appended"
    /\ pc' = "validate"
    /\ buffer' = <<>>
    /\ fcs' = FcsSeed
    /\ pos' = 1
    /\ yielded' = <<>>
    /\ raised' = ""
    /\ UNCHANGED <<data, count, pending, stuffed, skip, ret_bits>>
    /\ UNCHANGED <<D, appended, flip, parseVars>>
    /\ UNCHANGED codecVars

\* fcs_validate, one loop iteration
ValidateBit ==
    /\ pc = "validate"
    /\ pos <= Len(appended)
    /\ pos' = pos + 1
    /\ LET appendedTo == Append(buffer, appended[pos]) IN
         IF Len(appendedTo) > 16
           THEN LET bit == Head(appendedTo) IN
                  /\ buffer' = Tail(appendedTo)
                  /\ IF update_accepts(bit)
                        THEN /\ fcs' = update(fcs, bit)
                             /\ yielded' = Append(yielded, bit)
                             /\ UNCHANGED <<pc, raised>>
                        ELSE /\ raised' = "TypeError"
                             /\ pc' = "validated"
                             /\ UNCHANGED <<fcs, yielded>>
           ELSE /\ buffer' = appendedTo
                /\ UNCHANGED <<pc, fcs, yielded, raised>>
    /\ UNCHANGED <<data, count, pending, stuffed, skip, ret_bits>>
    /\ UNCHANGED <<D, appended, flip, parseVars>>
    /\ UNCHANGED codecVars

\* fcs_validate, after the loop: the buffered trailer against the digest
ValidateEnd ==
    /\ pc = "validate"
    /\ pos > Len(appended)
    /\ raised' = IF ToBytesBig(buffer) # digest(fcs)
                   THEN "FCS checksum invalid."
                   ELSE ""
    /\ pc' = "validated"
    /\ UNCHANGED <<stuffVars, D, fcs, appended, flip, buffer, yielded, parseVars>>
    /\ UNCHANGED codecVars

FcsNext ==
    \/ FcsYieldBit
    \/ FcsYieldDigest
    \/ FlipBit
    \/ ValidateCall
    \/ ValidateBit
    \/ ValidateEnd

SpecFcs == FcsInit /\ [][FcsNext]_vars

----------------------------------------------------------------------------
(* AX25.unparse / AX25.parse *)

\* b"APRS"
APRS == <<65, 80, 82, 83>>

\* b"N0CALL"
N0CALL == <<78, 48, 67, 65, 76, 76>>

\* b"W1AW-9"
W1AW_9 == <<87, 49, 65, 87, 45, 57>>

\* b"WIDE1-1"
WIDE1_1 == <<87, 73, 68, 69, 49, 45, 49>>

\* b"WIDE2-1"
WIDE2_1 == <<87, 73, 68, 69, 50, 45, 49>>

\* b"RELAY"
RELAY == <<82, 69, 76, 65, 89>>

\* Frames built for transmission.
TxDestinations == {APRS, W1AW_9}

TxSources == {N0CALL}

TxPaths == {<<>>, <<WIDE1_1>>, <<WIDE1_1, WIDE2_1>>}

\* b"", b"!", b"~~"
TxInfos == {<<>>, <<33>>, <<126, 126>>}

\* Most filler bytes in front of the tail of a received body.
MaxFill == 16

\* Longest tail of a received body.
MaxTail == 3

\* Longest received sequence taken from all bit sequences.
ShortBits == 9

\* 'A' << 1 and ' ' << 1
FillBytes == {130, 64}

\* the marker bytes 0x03 and 0xF0, and '!'
TailBytes == {ControlField, ProtocolId, 33}

FlagBits == FromBytesLittle(<<FlagByte>>)

\* Bodies of received frames: a run of one filler byte, then a tail.
RxBodies ==
    {[k \in 1..h |-> f] \o t :
        h \in 0..MaxFill, f \in FillBytes,
        t \in UNION {[1..k -> TailBytes] : k \in 0..MaxTail}}

\* A stuffed body behind nf flags: none, one in front, one on either side.
Framed(nf, body) ==
    LET stuffedBody == bit_stuff(FromBytesLittle(body)) IN
      IF nf = 0 THEN stuffedBody
      ELSE IF nf = 1 THEN FlagBits \o stuffedBody
      ELSE FlagBits \o stuffedBody \o FlagBits

\* Two flags that share their middle 0-bit.
SharedZeroFlags == FlagBits \o Tail(FlagBits)

\* Bit sequences that arrive from the channel.
RxInputs ==
    BitSeqs(ShortBits)
    \cup {SharedZeroFlags}
    \cup {Framed(nf, body) : nf \in 0..2, body \in RxBodies}

ParseInit ==
    /\ pc = "idle"
    /\ data = <<>>
    /\ pos = 1
    /\ StuffIdle
    /\ FcsIdle
    /\ ui = NoFrame
    /\ bits = <<>>
    /\ origin = ""
    \* AX25() with the default arguments of AX25.__init__
    /\ destination = PyBytes(APRS)
    /\ source = PyBytes(<<>>)
    /\ digipeaters = PyTuple(<<RELAY, WIDE2_1>>)
    /\ info = PyBytes(<<34>>)
    /\ digis = Absent
    /\ CodecIdle

receiver == <<destination, source, digipeaters, info, digis>>

\* UI(destination, source, digipeaters, info)
NewUI ==
    /\ pc = "idle"
    /\ \E d \in TxDestinations, s \in TxSources, p \in TxPaths, i \in TxInfos :
         ui' = [destination |-> d, source |-> s, digipeaters |-> p, info |-> i]
    /\ pc' = "built"
    /\ UNCHANGED <<stuffVars, fcsVars, bits, origin, receiver>>
    /\ UNCHANGED codecVars

\* ui.unparse(): the wire bits reach the receiver unchanged
Unparse ==
    /\ pc = "built"
    /\ bits' = unparse(ui)
    /\ origin' = "unparse"
    /\ pc' = "wire"
    /\ UNCHANGED <<stuffVars, fcsVars, ui, receiver>>
    /\ UNCHANGED codecVars

\* The channel inverts one bit between the two flags of a sent frame.
Corrupt ==
    /\ pc = "wire"
    /\ origin = "unparse"
    /\ \E i \in 9..(Len(bits) - 8) : bits' = [bits EXCEPT ![i] = 1 - @]
    /\ origin' = "corrupted"
    /\ UNCHANGED <<pc, stuffVars, fcsVars, ui, receiver>>
    /\ UNCHANGED codecVars

\* Bits that no frame of this program produced arrive from the channel.
Receive ==
    /\ pc = "idle"
    /\ bits' \in RxInputs
    /\ origin' = "received"
    /\ pc' = "wire"
    /\ UNCHANGED <<stuffVars, fcsVars, ui, digipeaters, destination, source,
                   info, digis>>
    /\ UNCHANGED codecVars

\* AX25.parse(bits)
Parse ==
    /\ pc = "wire"
    /\ LET r == parse(bits) IN
         /\ destination' = r.destination
         /\ source' = r.source
         /\ info' = r.info
         /\ digis' = r.digis
    /\ pc' = "parsed"
    /\ UNCHANGED <<stuffVars, fcsVars, ui, bits, origin, digipeaters>>
    /\ UNCHANGED codecVars

ParseNext ==
    \/ NewUI
    \/ Unparse
    \/ Corrupt
    \/ Receive
    \/ Parse

SpecParse == ParseInit /\ [][ParseNext]_vars

----------------------------------------------------------------------------
(* Properties of AX25.parse *)

\* Number of positions at which the flag pattern 01111110 occurs in bs.
FlagOccurrences(bs) ==
    Cardinality({i \in 1..(Len(bs) - 7) : SubSeq(bs, i, i + 7) = FlagBits})

\* The unstuffed bytes between the first two flags of bs.
BodyBits(bs) ==
    LET loc == search(bs, FlagBits) IN
      bit_unstuff(PySlice(bs, loc[1] + 8, loc[2]))

BodyOf(bs) == ToBytesLittle(BodyBits(bs))

\* The bytes 0x03, 0xF0 stand at byte offset n of body.
MarkerAt(body, n) ==
    /\ n + 2 <= Len(body)
    /\ body[n + 1] = ControlField
    /\ body[n + 2] = ProtocolId

MarkerFrom14(body) == \E n \in 14..(Len(body) - 2) : MarkerAt(body, n)

AllNoDecode ==
    /\ destination = NoDecode
    /\ source = NoDecode
    /\ info = NoDecode
    /\ digis = NoDecode

\* The success state of parse: decoded values in all four fields.
Decoded ==
    /\ destination.t = "str" /\ destination # NoDecode
    /\ source.t = "str" /\ source # NoDecode
    /\ info.t = "bytes"
    /\ digis.t = "tuple"

\* The callsign without its SSID, padded with spaces to six characters.
PaddedBase(cs) ==
    LET base == IF FindDash(cs) > 0 THEN SubSeq(cs, 1, FindDash(cs)) ELSE cs
    IN  base \o [k \in 1..(6 - Len(base)) |-> Space]

\* C2: parsing what unparse produced for a valid UI frame ends in the
\* success state with destination, source, digipeater path and info of the
\* frame that was sent.
C2_FrameRoundTrip ==
    (pc = "parsed" /\ origin = "unparse") =>
        /\ Decoded
        /\ SubSeq(destination.v, 1, 6) = PaddedBase(ui.destination)
        /\ SubSeq(source.v, 1, 6) = PaddedBase(ui.source)
        /\ Len(digis.v) = Len(ui.digipeaters)
        /\ info.v = ui.info

\* C5: an input with fewer than two occurrences of the flag pattern makes
\* parse return with destination, source, info and digis all "no decode".
C5_FewFlagsNoDecode ==
    (pc = "parsed" /\ FlagOccurrences(bits) < 2) => AllNoDecode

\* A frame-sized input with exactly one flag has been parsed.
C5_Witness ==
    /\ pc = "parsed"
    /\ FlagOccurrences(bits) = 1
    /\ Len(bits) >= 8 + 8 * 18
    /\ AllNoDecode

\* C6: a flag-delimited input whose body has no marker 0x03 0xF0 at a byte
\* offset of 14 or more ends in the decode failure state, whatever the
\* length of the body.
C6_NoMarkerNoDecode ==
    (pc = "parsed" /\ FlagOccurrences(bits) >= 2
       /\ ~MarkerFrom14(BodyOf(bits))) => AllNoDecode

\* C7: whenever a stage of parse fails (flags not found, marker not found)
\* all four fields hold the sentinel, and no state after parse has the
\* sentinel in some of the fields only.
C7_FailureIsUniform ==
    pc = "parsed" =>
        /\ (FlagOccurrences(bits) < 2 => AllNoDecode)
        /\ (FlagOccurrences(bits) >= 2 /\ ~MarkerFrom14(BodyOf(bits))
              => AllNoDecode)
        /\ (NoDecode \in {destination, source, info, digis} => AllNoDecode)

\* The 16 trailing bits of the body differ from the digest over the bits
\* in front of them.
FcsDisagrees(bs) ==
    LET body == BodyBits(bs)
        n    == Len(body)
    IN  /\ n >= 16
        /\ SubSeq(body, n - 15, n)
             # FromBytesLittle(digest(update_bits(FcsSeed, body, 1, n - 16)))

\* C8: a flag-delimited frame with the marker in place whose FCS trailer
\* disagrees with the recomputed digest does not end in the success state
\* of a valid frame.
C8_MismatchIsTold ==
    (pc = "parsed" /\ FlagOccurrences(bits) >= 2
       /\ MarkerFrom14(BodyOf(bits)) /\ FcsDisagrees(bits)) => ~Decoded

\* Byte offset of the first marker 0x03 0xF0 at offset 14 or later.
FirstMarker(body) ==
    CHOOSE n \in 14..(Len(body) - 2) :
        MarkerAt(body, n) /\ \A m \in 14..(n - 1) : ~MarkerAt(body, m)

\* C15: with the marker at byte offset n > 14, n - 14 a multiple of 7,
\* parse ends in the success state with (n - 14) / 7 digipeater entries.
C15_DigipeatersDecoded ==
    (pc = "parsed" /\ FlagOccurrences(bits) >= 2
       /\ MarkerFrom14(BodyOf(bits))
       /\ FirstMarker(BodyOf(bits)) > 14
       /\ (FirstMarker(BodyOf(bits)) - 14) % 7 = 0) =>
        /\ Decoded
        /\ Len(digis.v) = (FirstMarker(BodyOf(bits)) - 14) \div 7

\* Positions, 0-based, at which the flag pattern occurs in bs.
FlagOffsets(bs) ==
    {i \in 0..(Len(bs) - 8) : SubSeq(bs, i + 1, i + 8) = FlagBits}

\* C16: in what unparse returns the flag pattern occurs at offset 0 and at
\* offset length - 8 and nowhere else, so the first two flags that parse
\* finds enclose exactly the stuffed body.
C16_FlagsOnlyAtEnds ==
    (pc = "wire" /\ origin = "unparse") =>
        /\ FlagOffsets(bits) = {0, Len(bits) - 8}
        /\ LET flag_loc == search(bits, FlagBits) IN
             PySlice(bits, flag_loc[1] + 8, flag_loc[2])
               = SubSeq(bits, 9, Len(bits) - 8)

\* unparse has returned for a frame whose payload is two flag bytes.
C16_Witness ==
    /\ pc = "wire"
    /\ origin = "unparse"
    /\ ui.info = <<FlagByte, FlagByte>>
    /\ Len(bits) > 8 * (Len(header(ui)) + 4) + 16

\* The marker does not occur in header() at an offset from 14 up to the
\* end of the address field.
NoMarkerInAddresses(self) ==
    \A n \in 14..(Len(encoded_addresses(self)) - 1) : ~MarkerAt(header(self), n)

\* C17: for a frame with valid callsigns the marker 0x03 0xF0 does not
\* occur in the address field from offset 14 on, and the marker scan of
\* parse stops at the control field, offset 14 + 7 * (number of
\* digipeaters).
C17_ScanFindsControl ==
    (pc = "wire" /\ origin = "unparse") =>
        /\ NoMarkerInAddresses(ui)
        /\ marker_scan(BodyOf(bits)).bound
        /\ marker_scan(BodyOf(bits)).n = 14 + 7 * Len(ui.digipeaters)

\* The address field of a sent frame holds no marker.
SentAddressesHaveNoMarker ==
    (pc = "wire" /\ origin = "unparse") => NoMarkerInAddresses(ui)

----------------------------------------------------------------------------
(* AX25.encoded_addresses / AX25.fcs against the generator fcs *)

EncodeInit ==
    /\ pc = "encode"
    /\ ui \in [destination : TxDestinations, source : TxSources,
               digipeaters : TxPaths, info : TxInfos]
    /\ data = <<>>
    /\ pos = 1
    /\ StuffIdle
    /\ FcsIdle
    /\ bits = <<>>
    /\ origin = ""
    /\ destination = Absent
    /\ source = Absent
    /\ digipeaters = Absent
    /\ info = Absent
    /\ digis = Absent
    /\ CodecIdle

\* ui.encoded_addresses()
EncodeAddresses ==
    /\ pc = "encode"
    /\ addresses' = encoded_addresses(ui)
    /\ pc' = "addressed"
    /\ UNCHANGED <<stuffVars, fcsVars, parseVars>>
    /\ UNCHANGED <<callsign, encoded, decoded, trailer>>

\* ui.fcs()
FrameFcs ==
    /\ pc = "addressed"
    /\ trailer' = frame_fcs(ui)
    /\ pc' = "summed"
    /\ UNCHANGED <<stuffVars, fcsVars, parseVars>>
    /\ UNCHANGED <<callsign, encoded, decoded, addresses>>

\* fcs(bits) is called on the little-bit-endian bits of header + info
StreamFcs ==
    /\ pc = "summed"
    /\ D' = header(ui) \o ui.info
    /\ data' = FromBytesLittle(header(ui) \o ui.info)
    /\ pos' = 1
    /\ fcs' = FcsSeed
    /\ appended' = <<>>
    /\ pc' = "fcs"
    /\ UNCHANGED <<count, pending, stuffed, skip, ret_bits>>
    /\ UNCHANGED <<flip, buffer, yielded, raised, parseVars, codecVars>>

EncodeNext ==
    \/ EncodeAddresses
    \/ FrameFcs
    \/ StreamFcs
    \/ FcsYieldBit
    \/ FcsYieldDigest

SpecEncode == EncodeInit /\ [][EncodeNext]_vars

----------------------------------------------------------------------------
(* Properties of the frame encoder *)

\* update_bit over the 8 bits of one byte, least significant first
RECURSIVE LsbFirstByte(_, _, _)
LsbFirstByte(state, byte, i) ==
    IF i > 7 THEN state
    ELSE LsbFirstByte(update_bit(state, (byte \div (2 ^ i)) % 2), byte, i + 1)

\* the fold of LsbFirstByte over bytes[lo] .. bytes[hi], in order
RECURSIVE LsbFirstFold(_, _, _, _)
LsbFirstFold(state, bytes, lo, hi) ==
    IF lo > hi THEN state
    ELSE IF lo = hi THEN LsbFirstByte(state, bytes[lo], 0)
    ELSE LET mid == (lo + hi) \div 2 IN
           CHOOSE r \in {LsbFirstFold(l, bytes, mid + 1, hi) :
                            l \in {LsbFirstFold(state, bytes, lo, mid)}} : TRUE

FcsReturned == pc \in {"summed", "fcs", "appended"} /\ trailer # <<>>

C12_AddressField ==
    pc \in {"addressed", "summed"} =>
        /\ Len(addresses) = 7 * (2 + Len(ui.digipeaters))
        /\ addresses[Len(addresses)] % 2 = 1
        /\ \A k \in 1..(Len(addresses) - 1) : addresses[k] % 2 = 0

\* encoded_addresses has returned for a frame without digipeaters.
C12_Witness ==
    /\ pc = "addressed"
    /\ ui.digipeaters = <<>>
    /\ Len(addresses) = 14
    /\ addresses[14] % 2 = 1

\* C19: the two bytes AX25.fcs returns, which unparse serialises, are the
\* 16 bits the generator fcs yields after the bits of header + info.
C19_SameTrailer ==
    (pc = "appended" /\ trailer # <<>>) =>
        /\ Len(appended) = 8 * Len(D) + 16
        /\ SubSeq(appended, 8 * Len(D) + 1, Len(appended))
             = FromBytesLittle(trailer)

\* Both paths have run for a frame with a digipeater path and a payload.
C19_Witness ==
    /\ pc = "appended"
    /\ trailer # <<>>
    /\ D = header(ui) \o ui.info
    /\ Len(ui.digipeaters) = 2
    /\ ui.info # <<>>
    /\ Len(appended) = 8 * Len(D) + 16

----------------------------------------------------------------------------
(* AX25.callsign_encode / AX25.callsign_decode *)

\* Longest BASE part of a callsign argument.
MaxBase == 7

\* 'A', '9' and 'z'
CallChars == {65, 57, 122}

\* What follows BASE: nothing, "-", "-1", "-12", "-1-2", "--1".
CallSuffixes ==
    {<<>>, <<Dash>>, <<Dash, 49>>, <<Dash, 49, 50>>,
     <<Dash, 49, Dash, 50>>, <<Dash, Dash, 49>>}

CallsignArgs ==
    {base \o suffix :
        base \in UNION {[1..k -> CallChars] : k \in 0..MaxBase},
        suffix \in CallSuffixes}

CallsignInit ==
    /\ pc = "callsign"
    /\ callsign \in CallsignArgs
    /\ encoded = [raised |-> "", bytes |-> <<>>]
    /\ decoded = Absent
    /\ addresses = <<>>
    /\ trailer = <<>>
    /\ data = <<>>
    /\ pos = 1
    /\ StuffIdle
    /\ FcsIdle
    /\ ParseIdle

\* AX25.callsign_encode(callsign)
CallsignEncode ==
    /\ pc = "callsign"
    /\ encoded' = callsign_encode(callsign)
    /\ pc' = IF callsign_encode(callsign).raised = "" THEN "encoded"
                                                      ELSE "failed"
    /\ UNCHANGED <<stuffVars, fcsVars, parseVars>>
    /\ UNCHANGED <<callsign, decoded, addresses, trailer>>

\* The callsign is the last of an address field: encoded_addresses sets
\* the low-order bit of its last byte.
CallsignLast ==
    /\ pc = "encoded"
    /\ addresses = <<>>
    /\ addresses' = [encoded.bytes EXCEPT
                       ![Len(encoded.bytes)] = IF @ % 2 = 0 THEN @ + 1 ELSE @]
    /\ UNCHANGED <<pc, stuffVars, fcsVars, parseVars>>
    /\ UNCHANGED <<callsign, encoded, decoded, trailer>>

\* callsign_decode on the bits of the 7 bytes, as parse slices them
CallsignDecode ==
    /\ pc = "encoded"
    /\ decoded' = callsign_decode(FromBytesLittle(
                      IF addresses = <<>> THEN encoded.bytes ELSE addresses))
    /\ pc' = "decoded"
    /\ UNCHANGED <<stuffVars, fcsVars, parseVars>>
    /\ UNCHANGED <<callsign, encoded, addresses, trailer>>

CallsignNext ==
    \/ CallsignEncode
    \/ CallsignLast
    \/ CallsignDecode

SpecCallsign == CallsignInit /\ [][CallsignNext]_vars

----------------------------------------------------------------------------
(* Properties of the callsign codec *)

\* BASE and SSID of a string BASE[-SSID]: what stands before the first
\* dash, and what stands behind it ("0" without a dash).
BasePart(cs) ==
    IF FindDash(cs) >= 0 THEN SubSeq(cs, 1, FindDash(cs)) ELSE cs

SsidPart(cs) ==
    IF FindDash(cs) >= 0 THEN SubSeq(cs, FindDash(cs) + 2, Len(cs))
                         ELSE <<Zero>>

UpperOrDigit(c) == c \in 65..90 \/ c \in 48..57

\* 1 to 6 upper-case letters or digits, then nothing or a dash and a digit
ValidCallsign(cs) ==
    /\ Len(BasePart(cs)) \in 1..6
    /\ \A k \in 1..Len(BasePart(cs)) : UpperOrDigit(BasePart(cs)[k])
    /\ Len(SsidPart(cs)) = 1
    /\ SsidPart(cs)[1] \in 48..57

\* C13: a valid callsign is encoded in exactly 7 bytes, and decoding them
\* gives the callsign padded with spaces to 6 characters and then the
\* SSID, also after the low-order bit of the last byte has been set.
C13_CallsignRoundTrip ==
    (pc = "decoded" /\ ValidCallsign(callsign)) =>
        /\ encoded.raised = ""
        /\ Len(encoded.bytes) = 7
        /\ decoded = PyStr(BasePart(callsign)
                           \o [k \in 1..(6 - Len(BasePart(callsign))) |-> Space]
                           \o SsidPart(callsign))

\* A short callsign with an explicit SSID was decoded after its last byte
\* got the end-of-address bit.
C13_Witness ==
    /\ pc = "decoded"
    /\ ValidCallsign(callsign)
    /\ Len(BasePart(callsign)) = 2
    /\ SsidPart(callsign) = <<49>>
    /\ addresses # <<>>
    /\ addresses[7] % 2 = 1
    /\ Len(decoded.v) = 7

\* C14: callsign_encode fails and returns no bytes whenever the SSID part
\* is not exactly one character or BASE is longer than 6 characters, also
\* when BASE is empty and when there is more than one dash.
C14_BadCallsignFails ==
    (pc # "callsign"
       /\ (Len(SsidPart(callsign)) # 1 \/ Len(BasePart(callsign)) > 6)) =>
        /\ encoded.raised # ""
        /\ encoded.bytes = <<>>

----------------------------------------------------------------------------
(* Properties of the frame check sequence *)

\* C3: validating what fcs() yields for the bits of D yields those bits,
\* the 16 trailer bits removed, and raises nothing.
C3_FcsRoundTrip ==
    (pc = "validated" /\ flip = 0) =>
        (raised = "" /\ yielded = FromBytesLittle(D))

\* C4: with any single bit of the appended stream inverted, fcs_validate
\* ends with the checksum error.
C4_FlipDetected ==
    (pc = "validated" /\ flip # 0) => raised = "FCS checksum invalid."

\* C18: the FCS accumulator stays an integer in 0 .. 0xFFFF: it starts
\* at 0xFFFF and every update_bit keeps it in that range.
C18_FcsInRange == fcs \in 0..65535

\* update_bit has run with the feedback constant folded in: bit 15 is set
\* after the shift.
C18_Witness ==
    /\ pc = "fcs"
    /\ pos > 8
    /\ fcs >= 32768
    /\ fcs # FcsSeed

----------------------------------------------------------------------------
(* Properties of bit stuffing *)

StuffDone == pc \in {"unstuff", "unstuffed"}

\* C1: unstuffing the stuffed stream gives back the input bit for bit,
\* also when the input ends in exactly five 1-bits.
C1_StuffRoundTrip == pc = "unstuffed" => ret_bits = data

\* An input ending in exactly five 1-bits got its trailing stuffed 0 and
\* was unstuffed.
C1_Witness ==
    /\ pc = "unstuffed"
    /\ Len(data) >= 6
    /\ \A j \in (Len(data) - 4)..Len(data) : data[j] = 1
    /\ data[Len(data) - 5] = 0
    /\ Len(stuffed) = Len(data) + 1
    /\ stuffed[Len(stuffed)] = 0

\* C9: at every prefix of the stream bit_stuff yields there is no run of
\* six or more consecutive 1-bits.
C9_NoSixOnes == ~HasRun(stuffed, 6)

\* An input with a run of ten 1-bits has been stuffed completely.
C9_Witness ==
    /\ StuffDone
    /\ HasRun(data, 10)
    /\ Len(stuffed) = Len(data) + 2

\* C10: an input without a run of five or more 1-bits is yielded unchanged.
C10_NoRunIdentity == (StuffDone /\ ~HasRun(data, 5)) => stuffed = data

\* An input with a run of four 1-bits, but none of five, has been stuffed.
C10_Witness ==
    /\ StuffDone
    /\ HasRun(data, 4)
    /\ ~HasRun(data, 5)
    /\ Len(data) = MaxBits
    /\ stuffed = data

====
